---- MODULE Spec2Model ----
(***************************************************************************)
(* The FastAPI backend of create-nextpy-app (backend_folder/main.py):      *)
(* an application object wrapped in one CORSMiddleware whose single        *)
(* allowed origin is read from ALLOWED_URL when the module is imported,    *)
(* and two endpoints on "/", read_root (GET) and create_item (POST).       *)
(*                                                                         *)
(* A request travels through the ASGI stack in steps (CORS middleware,     *)
(* router, body extraction and validation, endpoint, the middleware's      *)
(* send wrapper); several requests may be in flight and their steps        *)
(* interleave.                                                             *)
(***************************************************************************)
EXTENDS Integers, Sequences, FiniteSets, TLC

VARIABLES
    environ,        \* the current value of the environment variable ALLOWED_URL
    startEnv,       \* history: the value ALLOWED_URL had when main.py was imported
    allow_origins,  \* the allow_origins list handed to CORSMiddleware (main.py:9-11)
    conn            \* worker -> the request it is handling and how far it got

vars == <<environ, startEnv, allow_origins, conn>>

\* Longest JSON array or object a request body carries.
MaxLen == 2
\* Requests in flight at once under SpecConc.
MaxInFlight == 2

Absent == "<absent>"   \* a header that is not in the request / response
Unset == "<unset>"     \* an environment variable that is not set

Range(f) == {f[i] : i \in DOMAIN f}
SeqsUpTo(S, n) == UNION {[1..k -> S] : k \in 0..n}

(***************************************************************************)
(* JSON texts (what is on the wire) and the Python values they parse to.   *)
(***************************************************************************)
JNum(n) == [t |-> "number", v |-> n]
JStr(s) == [t |-> "string", v |-> s]
JNull == [t |-> "null", v |-> 0]
JArr(elems) == [t |-> "array", v |-> elems]
JObj(members) == [t |-> "object", v |-> members]   \* <<key, value>> pairs as written
EmptyBody == [t |-> "empty", v |-> 0]              \* no body bytes at all
Malformed == [t |-> "malformed", v |-> 0]          \* bytes that are not JSON

PyInt(n) == [t |-> "int", v |-> n]
PyStr(s) == [t |-> "str", v |-> s]
PyNone == [t |-> "NoneType", v |-> 0]
PyList(elems) == [t |-> "list", v |-> elems]
PyDict(items) == [t |-> "dict", v |-> items]       \* <<key, value>> in insertion order
PyBytes == [t |-> "bytes", v |-> 0]                \* a body left unparsed
JSONDecodeError == [t |-> "JSONDecodeError", v |-> 0]

\* d[k] = val on a dict: an existing key keeps its place and takes the new value.
dict_setitem(d, k, val) ==
    IF \E i \in 1..Len(d) : d[i][1] = k
    THEN [i \in 1..Len(d) |-> IF d[i][1] = k THEN <<k, val>> ELSE d[i]]
    ELSE Append(d, <<k, val>>)

RECURSIVE dict_of(_, _)
dict_of(pairs, n) ==
    IF n = 0 THEN <<>>
    ELSE dict_setitem(dict_of(pairs, n - 1), pairs[n][1], pairs[n][2])

\* json.loads: the request body as a Python value.
RECURSIVE json_loads(_)
json_loads(j) ==
    CASE j.t = "number" -> PyInt(j.v)
      [] j.t = "string" -> PyStr(j.v)
      [] j.t = "null" -> PyNone
      [] j.t = "array" -> PyList([i \in 1..Len(j.v) |-> json_loads(j.v[i])])
      [] j.t = "object" ->
            PyDict(dict_of([i \in 1..Len(j.v) |->
                               <<j.v[i][1], json_loads(j.v[i][2])>>], Len(j.v)))
      [] OTHER -> JSONDecodeError

RECURSIVE Join(_, _)
Join(strs, sep) ==
    IF strs = <<>> THEN ""
    ELSE IF Len(strs) = 1 THEN strs[1]
    ELSE strs[1] \o sep \o Join(Tail(strs), sep)

\* str() of a Python value, as the f-string of create_item formats {item}.
RECURSIVE repr(_)
repr(p) ==
    CASE p.t = "int" -> ToString(p.v)
      [] p.t = "str" -> "'" \o p.v \o "'"
      [] p.t = "NoneType" -> "None"
      [] p.t = "list" ->
            "[" \o Join([i \in 1..Len(p.v) |-> repr(p.v[i])], ", ") \o "]"
      [] p.t = "dict" ->
            "{" \o Join([i \in 1..Len(p.v) |->
                            "'" \o p.v[i][1] \o "': " \o repr(p.v[i][2])], ", ") \o "}"

(***************************************************************************)
(* Requests.                                                               *)
(***************************************************************************)
Methods == {"GET", "POST", "OPTIONS", "PUT"}
Paths == {"/", "/docs", "/items"}
Queries == {"", "q=1"}
Origins == {Absent, "http://localhost:3000", "https://example.com"}
ContentTypes == {Absent, "application/json", "text/plain"}
RequestMethods == {Absent, "POST"}     \* Access-Control-Request-Method
EnvValues == {Unset, "https://example.com", "*"}

Keys == {"a", "b"}
Members == {JNum(1), JObj(<< <<"b", JStr("x")>> >>)}
Bodies ==
    {EmptyBody, Malformed, JNum(1), JStr("x"), JNull}
    \cup {JArr(s) : s \in SeqsUpTo(Members, MaxLen)}
    \cup {JObj(s) : s \in SeqsUpTo(Keys \X Members, MaxLen)}

Requests ==
    [method : Methods, path : Paths, query : Queries, origin : Origins,
     ctype : ContentTypes, acrm : RequestMethods, body : Bodies]

\* Requests for "/" with no query string and no pre-flight header.
RootRequests(method, origins, ctype, body) ==
    [method : {method}, path : {"/"}, query : {""}, origin : origins,
     ctype : {ctype}, acrm : {Absent}, body : {body}]

\* The requests of the concurrent specification: GET / from both origins,
\* POST / of {"a": 1} as JSON from every origin, and without an Origin
\* POST / of {} as JSON and of {"a": 1} as text/plain.
ConcRequests ==
    RootRequests("GET", Origins \ {Absent}, Absent, EmptyBody)
    \cup RootRequests("POST", Origins, "application/json", JObj(<< <<"a", JNum(1)>> >>))
    \cup RootRequests("POST", {Absent}, "application/json", JObj(<<>>))
    \cup RootRequests("POST", {Absent}, "text/plain", JObj(<< <<"a", JNum(1)>> >>))

(***************************************************************************)
(* Responses.                                                              *)
(***************************************************************************)
\* by: the layer that produced the response.
Response(status, media, content, by) ==
    [status |-> status, media |-> media, content |-> content, by |-> by,
     acao |-> Absent,    \* Access-Control-Allow-Origin
     acac |-> Absent]    \* Access-Control-Allow-Credentials

JSONResponse(status, content, by) == Response(status, "application/json", content, by)

Detail(text) == PyDict(<< <<"detail", PyStr(text)>> >>)
ValidationErrors(kind) == PyDict(<< <<"detail", PyList(<<PyStr(kind)>>)>> >>)

(***************************************************************************)
(* main.py                                                                 *)
(***************************************************************************)
\* Mutant: the environment variable is ignored and the default always used.
os_getenv_ignored(value, default) == default

\* os.getenv(name, default)
os_getenv(value, default) == IF value = Unset THEN default ELSE value

\* CORSMiddleware(allow_origins=[...], allow_credentials=True,
\*                allow_methods=["*"], allow_headers=["*"])
ALL_METHODS == {"DELETE", "GET", "HEAD", "OPTIONS", "PATCH", "POST", "PUT"}
allow_all_origins == "*" \in Range(allow_origins)
\* Mutant: the allowed origin is read from the environment at each request.
is_allowed_origin_live(origin) ==
    LET now == IF environ = Unset THEN "http://localhost:3000" ELSE environ
    IN  now = "*" \/ origin = now

is_allowed_origin(origin) == allow_all_origins \/ origin \in Range(allow_origins)

\* The answer to a pre-flight request (OPTIONS with Access-Control-Request-Method).
preflight_response(req) ==
    LET okOrigin == is_allowed_origin(req.origin)
        okMethod == req.acrm \in ALL_METHODS
        failures == (IF okOrigin THEN <<>> ELSE <<"origin">>)
                    \o (IF okMethod THEN <<>> ELSE <<"method">>)
        r == IF failures = <<>>
             THEN Response(200, "text/plain", PyStr("OK"), "cors")
             ELSE Response(400, "text/plain",
                           PyStr("Disallowed CORS " \o Join(failures, ", ")), "cors")
    IN  [r EXCEPT !.acao = IF okOrigin THEN req.origin ELSE Absent,
                  !.acac = "true"]

\* Mutant: the send wrapper turns the answer to a disallowed origin into a 403.
cors_send_forbidding(resp, req) ==
    IF is_allowed_origin(req.origin)
    THEN [resp EXCEPT !.acac = "true",
                      !.acao = IF allow_all_origins THEN "*" ELSE req.origin]
    ELSE [resp EXCEPT !.acac = "true", !.status = 403]

\* The send wrapper of a request that carries an Origin (no Cookie header).
cors_send(resp, req) ==
    [resp EXCEPT
        !.acac = "true",
        !.acao = IF allow_all_origins THEN "*"
                 ELSE IF is_allowed_origin(req.origin) THEN req.origin
                 ELSE resp.acao]

\* Mutant: a request from a disallowed origin is answered by the middleware
\* itself, as a failed pre-flight is.
cors_dispatch_strict(req) ==
    IF req.origin = Absent THEN "pass"
    ELSE IF ~is_allowed_origin(req.origin) THEN "preflight"
    ELSE IF req.method = "OPTIONS" /\ req.acrm # Absent THEN "preflight"
    ELSE "simple"

\* What the CORS middleware does with a request: "pass" (no Origin), "preflight"
\* (answered by the middleware) or "simple" (handled, headers added on send).
cors_dispatch(req) ==
    IF req.origin = Absent THEN "pass"
    ELSE IF req.method = "OPTIONS" /\ req.acrm # Absent THEN "preflight"
    ELSE "simple"

\* Mutant: the query string is matched as part of the path.
route_match_with_query(req) ==
    CASE req.query # "" -> "404"
      [] req.path = "/" /\ req.method = "GET" -> "read_root"
      [] req.path = "/" /\ req.method = "POST" -> "create_item"
      [] req.path = "/" -> "405"
      [] req.path = "/docs" /\ req.method = "GET" -> "docs"
      [] req.path = "/docs" -> "405"
      [] OTHER -> "404"

\* Mutant: read_root is registered for every method but POST.
route_match_any_method(req) ==
    CASE req.path = "/" /\ req.method = "POST" -> "create_item"
      [] req.path = "/" -> "read_root"
      [] req.path = "/docs" /\ req.method = "GET" -> "docs"
      [] req.path = "/docs" -> "405"
      [] OTHER -> "404"

\* @app.get("/"), @app.post("/") and the documentation page FastAPI() adds.
route_match(req) ==
    CASE req.path = "/" /\ req.method = "GET" -> "read_root"
      [] req.path = "/" /\ req.method = "POST" -> "create_item"
      [] req.path = "/" -> "405"
      [] req.path = "/docs" /\ req.method = "GET" -> "docs"
      [] req.path = "/docs" -> "405"
      [] OTHER -> "404"

\* def read_root()
read_root ==
    PyDict(<< <<"message", PyStr("This is Get Request from python backend")>> >>)

\* Mutant: the item is kept in a module-level global that a request running
\* its endpoint at the same time has overwritten.
create_item_shared(item) ==
    LET others == {w \in DOMAIN conn :
                      /\ conn[w].pc = "endpoint" /\ conn[w].endpoint = "create_item"
                      /\ conn[w].item # item}
        seen == IF others = {} THEN item ELSE conn[CHOOSE w \in others : TRUE].item
    IN  PyDict(<< <<"message",
                    PyStr("This is Post Request from python backend and here is response "
                          \o repr(seen))>> >>)

\* Mutant: the item is returned as it is, not formatted into the message.
create_item_unrendered(item) == PyDict(<< <<"message", item>> >>)

\* def create_item(item: dict)
create_item(item) ==
    PyDict(<< <<"message",
                PyStr("This is Post Request from python backend and here is response "
                      \o repr(item))>> >>)

\* The body parameter item: the body is parsed as JSON when the request has no
\* Content-Type or a JSON one, and is left as bytes otherwise.
is_json_content_type(ctype) == ctype \in {Absent, "application/json"}

request_body(req) ==
    IF req.body = EmptyBody THEN PyNone
    ELSE IF is_json_content_type(req.ctype) THEN json_loads(req.body)
    ELSE PyBytes

\* Mutant: an empty dict counts as no item.
is_valid_item_truthy(value) == value.t = "dict" /\ value.v # <<>>

\* Mutant: a list is coerced to a dict.
is_valid_item_coerced(value) == value.t \in {"dict", "list"}

\* item: dict
is_valid_item(value) == value.t = "dict"

validation_error(value) ==
    JSONResponse(422,
                 ValidationErrors(CASE value.t = "JSONDecodeError" -> "json_invalid"
                                    [] value.t = "NoneType" -> "missing"
                                    [] OTHER -> "dict_type"),
                 "validation")

\* The response of the router for a request that matched no endpoint.
router_error(match) ==
    IF match = "405" THEN JSONResponse(405, Detail("Method Not Allowed"), "router")
    ELSE JSONResponse(404, Detail("Not Found"), "router")

\* The response an endpoint's return value becomes.
endpoint_response(endpoint, item) ==
    CASE endpoint = "read_root" -> JSONResponse(200, read_root, "read_root")
      [] endpoint = "create_item" -> JSONResponse(200, create_item(item), "create_item")
      [] OTHER -> Response(200, "text/html", PyStr("<!DOCTYPE html>"), "docs")

(***************************************************************************)
(* The application called with one request and nothing else in flight.     *)
(***************************************************************************)
router(req) ==
    LET match == route_match(req)
        value == request_body(req)
    IN  IF match \in {"404", "405"} THEN router_error(match)
        ELSE IF match = "create_item" /\ ~is_valid_item(value)
             THEN validation_error(value)
        ELSE endpoint_response(match, value)

app(req) ==
    LET d == cors_dispatch(req)
    IN  IF d = "preflight" THEN preflight_response(req)
        ELSE IF d = "simple" THEN cors_send(router(req), req)
        ELSE router(req)

(***************************************************************************)
(* The state machine.                                                      *)
(***************************************************************************)
NoRequest ==
    [method |-> "", path |-> "", query |-> "", origin |-> Absent,
     ctype |-> Absent, acrm |-> Absent, body |-> EmptyBody]
NoResponse == Response(0, "", PyNone, "")

Idle ==
    [pc |-> "idle", req |-> NoRequest, wrap |-> FALSE, endpoint |-> "",
     item |-> PyNone, resp |-> NoResponse]

\* The module has been imported: app is built and the middleware configured.
Init(workers) ==
    /\ startEnv \in EnvValues
    /\ environ = startEnv
    /\ allow_origins = <<os_getenv(startEnv, "http://localhost:3000")>>
    /\ conn = [w \in workers |-> Idle]

\* The environment variable is changed while the process runs.
SetEnv(value) ==
    /\ value # environ
    /\ environ' = value
    /\ UNCHANGED <<startEnv, allow_origins, conn>>

\* A request arrives.
Receive(w, requests) ==
    /\ conn[w].pc = "idle"
    /\ \E req \in requests :
          conn' = [conn EXCEPT ![w] = [Idle EXCEPT !.pc = "cors", !.req = req]]
    /\ UNCHANGED <<environ, startEnv, allow_origins>>

\* CORSMiddleware.__call__
CORSMiddleware(w) ==
    LET c == conn[w]
        d == cors_dispatch(c.req)
    IN  /\ c.pc = "cors"
        /\ conn' = [conn EXCEPT ![w] =
                IF d = "preflight"
                THEN [c EXCEPT !.pc = "done", !.resp = preflight_response(c.req)]
                ELSE [c EXCEPT !.pc = "route", !.wrap = (d = "simple")]]
        /\ UNCHANGED <<environ, startEnv, allow_origins>>

\* The router picks the endpoint, or answers 404 / 405.
Route(w) ==
    LET c == conn[w]
        match == route_match(c.req)
    IN  /\ c.pc = "route"
        /\ conn' = [conn EXCEPT ![w] =
                IF match \in {"404", "405"}
                THEN [c EXCEPT !.pc = "send", !.resp = router_error(match)]
                ELSE [c EXCEPT !.pc = IF match = "create_item" THEN "body" ELSE "endpoint",
                               !.endpoint = match]]
        /\ UNCHANGED <<environ, startEnv, allow_origins>>

\* The body of POST / is read and validated against item: dict.
SolveBody(w) ==
    LET c == conn[w]
        value == request_body(c.req)
    IN  /\ c.pc = "body"
        /\ conn' = [conn EXCEPT ![w] =
                IF is_valid_item(value)
                THEN [c EXCEPT !.pc = "endpoint", !.item = value]
                ELSE [c EXCEPT !.pc = "send", !.resp = validation_error(value)]]
        /\ UNCHANGED <<environ, startEnv, allow_origins>>

\* The endpoint function runs and its return value becomes the response.
RunEndpoint(w) ==
    LET c == conn[w]
    IN  /\ c.pc = "endpoint"
        /\ conn' = [conn EXCEPT ![w] =
                [c EXCEPT !.pc = "send", !.resp = endpoint_response(c.endpoint, c.item)]]
        /\ UNCHANGED <<environ, startEnv, allow_origins>>

\* The response starts: the CORS middleware adds its headers when it wrapped send.
Send(w) ==
    LET c == conn[w]
    IN  /\ c.pc = "send"
        /\ conn' = [conn EXCEPT ![w] =
                [c EXCEPT !.pc = "done",
                          !.resp = IF c.wrap THEN cors_send(c.resp, c.req) ELSE c.resp]]
        /\ UNCHANGED <<environ, startEnv, allow_origins>>

\* The response has been delivered; the worker is free again.
Release(w) ==
    /\ conn[w].pc = "done"
    /\ conn' = [conn EXCEPT ![w] = Idle]
    /\ UNCHANGED <<environ, startEnv, allow_origins>>

Next(workers, requests) ==
    \/ \E value \in EnvValues : SetEnv(value)
    \/ \E w \in workers : Receive(w, requests)
    \/ \E w \in workers : CORSMiddleware(w)
    \/ \E w \in workers : Route(w)
    \/ \E w \in workers : SolveBody(w)
    \/ \E w \in workers : RunEndpoint(w)
    \/ \E w \in workers : Send(w)
    \/ \E w \in workers : Release(w)

\* One request at a time, every request.
Spec == Init({1}) /\ [][Next({1}, Requests)]_vars

\* Up to MaxInFlight requests at a time.
SpecConc == Init(1..MaxInFlight) /\ [][Next(1..MaxInFlight, ConcRequests)]_vars

(***************************************************************************)
(* The properties.                                                         *)
(***************************************************************************)
Workers == DOMAIN conn
Answered(w) == conn[w].pc = "done"
OnRoot(w, method) == conn[w].req.method = method /\ conn[w].req.path = "/"

\* The allowed origin as the environment at process start gives it.
StartOrigin == IF startEnv = Unset THEN "http://localhost:3000" ELSE startEnv

GetMessage == "This is Get Request from python backend"
PostPrefix == "This is Post Request from python backend and here is response "
Envelope(text) == PyDict(<< <<"message", PyStr(text)>> >>)

\* A JSON object with the single key message whose value is a string.
IsEnvelope(resp) ==
    /\ resp.media = "application/json"
    /\ resp.content.t = "dict"
    /\ Len(resp.content.v) = 1
    /\ resp.content.v[1][1] = "message"
    /\ resp.content.v[1][2].t = "str"

HasMessageKey(resp) ==
    /\ resp.content.t = "dict"
    /\ \E i \in 1..Len(resp.content.v) : resp.content.v[i][1] = "message"

\* C1: every answered GET / has status 200 and the body
\* {"message": "This is Get Request from python backend"}, whatever its Origin,
\* Content-Type, pre-flight header, query string and body, and whatever was
\* handled before it.
C1_GetRootConstant ==
    \A w \in Workers :
        Answered(w) /\ OnRoot(w, "GET") =>
            /\ conn[w].resp.status = 200
            /\ conn[w].resp.media = "application/json"
            /\ conn[w].resp.content = Envelope(GetMessage)

C1_Witness ==
    \E w \in Workers :
        /\ Answered(w) /\ OnRoot(w, "GET")
        /\ conn[w].req.query = "q=1"
        /\ conn[w].req.origin = "https://example.com"
        /\ conn[w].req.ctype = "text/plain"
        /\ conn[w].req.acrm = "POST"
        /\ conn[w].req.body = Malformed
        /\ conn[w].resp.status = 200

\* C2 as stated: every answered POST / whose body is a JSON object has status
\* 200 and the message PostPrefix + str(the parsed object).
C2_EveryObjectEchoed ==
    \A w \in Workers :
        Answered(w) /\ OnRoot(w, "POST") /\ conn[w].req.body.t = "object" =>
            /\ conn[w].resp.status = 200
            /\ conn[w].resp.content =
                   Envelope(PostPrefix \o repr(json_loads(conn[w].req.body)))

\* C2 amended: every answered POST / with Content-Type application/json whose
\* body is a JSON object has status 200 and the message PostPrefix + str(the
\* parsed object); {"a": 1} gives "... {'a': 1}" and {} gives "... {}".
C2_JsonObjectEchoed ==
    \A w \in Workers :
        Answered(w) /\ OnRoot(w, "POST") /\ conn[w].req.body.t = "object"
            /\ conn[w].req.ctype = "application/json" =>
            /\ conn[w].resp.status = 200
            /\ conn[w].resp.content =
                   Envelope(PostPrefix \o repr(json_loads(conn[w].req.body)))
            /\ conn[w].req.body = JObj(<< <<"a", JNum(1)>> >>) =>
                   conn[w].resp.content = Envelope(PostPrefix \o "{'a': 1}")
            /\ conn[w].req.body = JObj(<<>>) =>
                   conn[w].resp.content = Envelope(PostPrefix \o "{}")
            /\ conn[w].req.body =
                   JObj(<< <<"b", JObj(<< <<"b", JStr("x")>> >>)>>, <<"a", JNum(1)>> >>) =>
                   conn[w].resp.content = Envelope(PostPrefix \o "{'b': {'b': 'x'}, 'a': 1}")

C2_Witness ==
    \E w \in Workers :
        /\ Answered(w) /\ OnRoot(w, "POST")
        /\ conn[w].req.ctype = "application/json"
        /\ conn[w].req.body =
               JObj(<< <<"b", JObj(<< <<"b", JStr("x")>> >>)>>, <<"a", JNum(1)>> >>)
        /\ conn[w].resp.status = 200

\* C3: a POST / whose body is a JSON array, a JSON scalar or malformed JSON never
\* reaches create_item and is answered with a 4xx status and no message envelope.
NotAnObject(body) == body.t \in {"array", "number", "string", "null", "malformed"}

C3_NonObjectRejected ==
    \A w \in Workers :
        OnRoot(w, "POST") /\ NotAnObject(conn[w].req.body) =>
            /\ conn[w].pc # "endpoint"
            /\ Answered(w) =>
                /\ conn[w].resp.status \in 400..499
                /\ conn[w].resp.by # "create_item"
                /\ ~HasMessageKey(conn[w].resp)

C3_Witness ==
    \E w \in Workers :
        /\ Answered(w) /\ OnRoot(w, "POST")
        /\ conn[w].req.ctype = "application/json"
        /\ conn[w].req.body = JArr(<<JNum(1)>>)
        /\ conn[w].resp.status = 422

\* A response that lets the request's origin read it.
AllowsOrigin(w) == conn[w].resp.acao \in {conn[w].req.origin, "*"}

\* C4 as stated: an answered request with an Origin header gets
\* Access-Control-Allow-Origin exactly when its Origin is StartOrigin.
C4_OnlyStartOriginAllowed ==
    \A w \in Workers :
        Answered(w) /\ conn[w].req.origin # Absent =>
            (AllowsOrigin(w) <=> conn[w].req.origin = StartOrigin)

\* C4 amended: when ALLOWED_URL was not "*" at process start, an answered request
\* with an Origin header gets Access-Control-Allow-Origin exactly when its Origin
\* is StartOrigin; when it was "*", every Origin gets it.
C4_StartOriginAllowed ==
    \A w \in Workers :
        Answered(w) /\ conn[w].req.origin # Absent =>
            IF StartOrigin = "*" THEN AllowsOrigin(w)
            ELSE /\ AllowsOrigin(w) <=> conn[w].req.origin = StartOrigin
                 /\ ~AllowsOrigin(w) => conn[w].resp.acao = Absent

C4_Witness ==
    \E w \in Workers :
        /\ Answered(w)
        /\ startEnv = "https://example.com"
        /\ conn[w].req.origin = "https://example.com"
        /\ conn[w].resp.acao = "https://example.com"

\* C5: no step changes the allow_origins list or the set of origins the
\* middleware allows, and that list holds the value read at process start.
C5_AllowedOriginFixed ==
    [][/\ allow_origins' = allow_origins
       /\ \A o \in Origins \ {Absent} : is_allowed_origin(o)' = is_allowed_origin(o)
       /\ \A o \in Origins \ {Absent} :
              is_allowed_origin(o)' <=> (StartOrigin' = "*" \/ o = StartOrigin')]_vars

C5_Witness ==
    \E w \in Workers :
        /\ Answered(w)
        /\ startEnv = Unset /\ environ = "https://example.com"
        /\ conn[w].req.origin = "https://example.com"
        /\ conn[w].resp.acao = Absent

\* C6: under every interleaving, each answered request has the response the
\* application gives that request alone.
C6_SameAsAlone ==
    \A w \in Workers : Answered(w) => conn[w].resp = app(conn[w].req)

C6_Witness ==
    \E w1, w2 \in Workers :
        /\ w1 # w2
        /\ Answered(w1) /\ conn[w1].resp.by = "create_item"
        /\ conn[w2].pc = "send" /\ conn[w2].resp.by = "create_item"
        /\ conn[w2].item # conn[w1].item

\* C7 as stated: every response is a message envelope.
C7_EveryResponseEnvelope ==
    \A w \in Workers : Answered(w) => IsEnvelope(conn[w].resp)

\* C7 amended: every 200 response to GET / and to POST / is a message envelope.
C7_SuccessEnvelope ==
    \A w \in Workers :
        /\ Answered(w) /\ conn[w].resp.status = 200
        /\ OnRoot(w, "GET") \/ OnRoot(w, "POST")
        => IsEnvelope(conn[w].resp)

C7_Witness ==
    \E w \in Workers :
        /\ Answered(w) /\ OnRoot(w, "POST")
        /\ conn[w].resp.status = 200
        /\ conn[w].req.body = JObj(<< <<"a", JNum(1)>> >>)
        /\ IsEnvelope(conn[w].resp)

\* Two requests that differ in nothing but their Origin header.
SameButOrigin(r1, r2) == [r1 EXCEPT !.origin = r2.origin] = r2

\* C8: of two answered GET / or POST / requests that differ only in Origin, one
\* from an origin that is not allowed and one from an allowed origin, both have
\* the same status and body, made by the same layer; the first has no
\* Access-Control-Allow-Origin.
C8_OriginNotRejected ==
    \A w1, w2 \in Workers :
        /\ Answered(w1) /\ Answered(w2)
        /\ OnRoot(w1, "GET") \/ OnRoot(w1, "POST")
        /\ SameButOrigin(conn[w1].req, conn[w2].req)
        /\ conn[w1].req.origin # Absent /\ ~is_allowed_origin(conn[w1].req.origin)
        /\ is_allowed_origin(conn[w2].req.origin)
        => /\ conn[w1].resp.status = conn[w2].resp.status
           /\ conn[w1].resp.content = conn[w2].resp.content
           /\ conn[w1].resp.by = conn[w2].resp.by
           /\ conn[w1].resp.acao = Absent
           /\ conn[w2].resp.acao # Absent

C8_Witness ==
    \E w1, w2 \in Workers :
        /\ Answered(w1) /\ Answered(w2)
        /\ OnRoot(w1, "POST")
        /\ SameButOrigin(conn[w1].req, conn[w2].req)
        /\ conn[w1].req.origin # Absent /\ ~is_allowed_origin(conn[w1].req.origin)
        /\ is_allowed_origin(conn[w2].req.origin)
        /\ conn[w1].resp.by = "create_item"
        /\ conn[w2].resp.acao = conn[w2].req.origin

SameObjectPosted(w1, w2) ==
    /\ Answered(w1) /\ Answered(w2)
    /\ OnRoot(w1, "POST") /\ OnRoot(w2, "POST")
    /\ conn[w1].req.body.t = "object"
    /\ conn[w1].req.body = conn[w2].req.body

\* C9 as stated: two answered POST / requests with the same JSON object have the
\* same status and body.
C9_SameObjectSameAnswer ==
    \A w1, w2 \in Workers :
        SameObjectPosted(w1, w2) =>
            /\ conn[w1].resp.status = conn[w2].resp.status
            /\ conn[w1].resp.content = conn[w2].resp.content

\* C9 amended: two answered POST / requests with the same JSON object and the
\* same Content-Type have the same status and body, whatever their Origin.
C9_SameObjectSameTypeSameAnswer ==
    \A w1, w2 \in Workers :
        SameObjectPosted(w1, w2) /\ conn[w1].req.ctype = conn[w2].req.ctype =>
            /\ conn[w1].resp.status = conn[w2].resp.status
            /\ conn[w1].resp.content = conn[w2].resp.content

C9_Witness ==
    \E w1, w2 \in Workers :
        /\ SameObjectPosted(w1, w2)
        /\ conn[w1].req.ctype = conn[w2].req.ctype
        /\ conn[w1].req.origin = Absent
        /\ conn[w2].req.origin # Absent /\ ~is_allowed_origin(conn[w2].req.origin)
        /\ conn[w1].resp.status = 200

\* C10: an answered request that is not GET / or POST / was not answered by
\* read_root or create_item and its body has no message key.
C10_OnlyRootGetPostRouted ==
    \A w \in Workers :
        Answered(w) /\ ~(OnRoot(w, "GET") \/ OnRoot(w, "POST")) =>
            /\ conn[w].resp.by \notin {"read_root", "create_item"}
            /\ ~HasMessageKey(conn[w].resp)
            /\ conn[w].resp.content # Envelope(GetMessage)

C10_Witness ==
    \E w \in Workers :
        /\ Answered(w)
        /\ conn[w].req.method = "PUT" /\ conn[w].req.path = "/"
        /\ conn[w].req.body = JObj(<< <<"a", JNum(1)>> >>)
        /\ conn[w].resp.status = 405

====
